---- MODULE Spec2Model ----
(***************************************************************************)
(* Model of wikibaseintegrator/wbi_login.py: the Login class, its three    *)
(* login procedures (login, clientlogin, OAuth), the cached edit token and *)
(* its lazy renewal in get_edit_token / get_edit_cookie, and the OAuth     *)
(* continuation continue_oauth.                                            *)
(*                                                                         *)
(* Time is a discrete clock `now` (time.time()).  It advances between      *)
(* calls (Tick) and while a call blocks on the network (the latency d of   *)
(* an operation); consecutive statements that do not block read the same   *)
(* clock value.                                                            *)
(*                                                                         *)
(* The MediaWiki server and the mwoauth handshake provider are the         *)
(* environment: each request is answered by a response drawn from a small  *)
(* set (success, transport failure, a body without the expected field).    *)
(*                                                                         *)
(* Spec is one caller that constructs one object and calls its methods in  *)
(* sequence.  SpecBackoff puts the constructor under its retry wrapper,    *)
(* SpecThreads lets two threads run the accessors statement by statement,  *)
(* SpecUserAgent constructs objects one after another in one process and   *)
(* follows the shared default user agent.                                  *)
(***************************************************************************)
EXTENDS Integers, Sequences, FiniteSets, TLC

VARIABLES
    now,                 \* time.time()
    constructed,         \* the caller holds a Login object (__init__ returned)
    strategy,            \* branch __init__ took: "none", "password", "clientlogin", "oauth"
    edit_token,          \* self.edit_token
    instantiation_time,  \* self.instantiation_time
    token_renew_period,  \* self.token_renew_period
    consumer_key,        \* self.consumer_key
    consumer_secret,     \* self.consumer_secret
    response_qs,         \* self.response_qs
    redirect,            \* self.redirect
    request_token,       \* self.request_token
    s_auth,              \* self.s.auth
    s_cookies,           \* self.s.cookies
    srv_request_token,   \* provider side: state of the request token it issued
    fetchedAt,           \* time the held edit_token was received from the server
    lastOp,              \* observation of the last call: events, outcome, return value
    stdout,              \* what the last call printed
    ua_default,          \* config['USER_AGENT_DEFAULT'], shared by the whole process
    wrapper,             \* the retry wrapper around __init__: tries and login submissions of its call
    conc                 \* callers running the accessors concurrently: their positions

vars == << now, constructed, strategy, edit_token, instantiation_time,
           token_renew_period, consumer_key, consumer_secret, response_qs,
           redirect, request_token, s_auth, s_cookies, srv_request_token,
           fetchedAt, lastOp, stdout, ua_default, wrapper, conc >>

----------------------------------------------------------------------------
(* Bounds of the model *)

MaxTime == 3

MaxLatency == 1

MaxPeriod == 2

\* tries the retry wrapper makes for one call of __init__
MaxTries == 2

----------------------------------------------------------------------------
(* Values *)

None == "None"

Never == -1

RenewPeriods == 1..MaxPeriod

\* csrf tokens the server hands to an authenticated session
AuthTokens == {"tokA", "tokB"}

\* the csrf token MediaWiki hands to a session that is not logged in
AnonToken == "anon"

NoErr == << "", "", "" >>

\* consumer_key / consumer_secret as passed: neither, both, or the key alone
ConsumerPairs == { << None, None >>, << "ck", "cs" >>, << "ck", None >> }

\* strings the user agent logic reads are sequences of characters
NoStr == << >>

\* user names: two that differ in case only, a part of another name, a part
\* of the default user agent
UserNames == { << "a", "l" >>, << "A", "L" >>, << "a" >>, << "w" >> }

\* an explicit user_agent argument
ExplicitUA == << "x" >>

\* config['USER_AGENT_DEFAULT'] as the process starts
BaseUA == << "w", "b", "i" >>

ArgsOver(users, agents) ==
    { [ token_renew_period |-> T, consumer_key |-> c[1], consumer_secret |-> c[2],
        use_clientlogin |-> u, user |-> n, user_agent |-> g ] :
      T \in RenewPeriods, c \in ConsumerPairs, u \in BOOLEAN,
      n \in users, g \in agents }

\* arguments of Login.__init__ the control flow depends on; these callers
\* pass their own user_agent
ConstructArgs == ArgsOver({ NoStr, << "a", "l" >> }, { ExplicitUA })

\* callers that pass any user name, with or without a user_agent, for the
\* password and the OAuth strategy
ConstructArgsAnyUser ==
    { a \in ArgsOver(UserNames \cup { NoStr }, { NoStr, ExplicitUA }) :
        /\ a.token_renew_period = 1
        /\ ~a.use_clientlogin
        /\ (a.consumer_key = None) <=> (a.consumer_secret = None) }

\* outcome of one HTTP exchange whose body is indexed by the code
HttpOutcomes == {"ok", "transport_error", "no_field"}

HttpErr(o) ==
    IF o = "transport_error" THEN << "ConnectionError", "", "" >>
    ELSE << "KeyError", "", "" >>

\* answers to the edit-token query (action=query&meta=tokens)
FetchResponses(authenticated) ==
    { [kind |-> k, token |-> ""] : k \in {"transport_error", "no_field"} }
    \cup { [kind |-> "ok", token |-> t] :
             t \in (IF authenticated THEN AuthTokens ELSE {AnonToken}) }

AllFetchResponses == FetchResponses(TRUE) \cup FetchResponses(FALSE)

\* login tokens the server hands out
LoginTokens == {"lt1", "lt2"}

\* answers to the login-token query (action=query&meta=tokens&type=login)
LoginTokenResponses ==
    { [kind |-> k, logintoken |-> ""] : k \in {"transport_error", "no_field"} }
    \cup { [kind |-> "ok", logintoken |-> t] : t \in LoginTokens }

\* answers to action=login; a body may carry a warnings block (format=json:
\* every entry of the block has its '*' text)
LoginResponses ==
    { [kind |-> "transport_error", result |-> "", warnings |-> FALSE] }
    \cup { [kind |-> "ok", result |-> r, warnings |-> w] :
             r \in {"Success", "Failed", "WrongPass"}, w \in BOOLEAN }

\* answers to action=clientlogin: a clientlogin block, an error block, or neither
ClientLoginResponses ==
    { [kind |-> "transport_error", hasClientlogin |-> FALSE, status |-> "",
       messagecode |-> "", message |-> "", hasError |-> FALSE, code |-> "", info |-> ""] }
    \cup { [kind |-> "ok", hasClientlogin |-> TRUE, status |-> st,
            messagecode |-> IF st = "PASS" THEN "" ELSE "authmanager-fail",
            message |-> IF st = "PASS" THEN "" ELSE "cl-message",
            hasError |-> FALSE, code |-> "", info |-> ""] : st \in {"PASS", "FAIL", "UI"} }
    \cup { [kind |-> "ok", hasClientlogin |-> FALSE, status |-> "",
            messagecode |-> "", message |-> "",
            hasError |-> he, code |-> IF he THEN "badpass" ELSE "",
            info |-> IF he THEN "Incorrect password" ELSE ""] : he \in BOOLEAN }

\* the access token the provider grants
AccessToken == [key |-> "ak", secret |-> "as"]

----------------------------------------------------------------------------
(* Pure helpers *)

Count(seq, x) == Cardinality({ i \in 1..Len(seq) : seq[i] = x })

HasQ(s) == \E i \in 1..Len(s) : s[i] = "?"

\* faulty variant: the piece after the first '?' (index [1] instead of [-1])
SplitSecond(s) ==
    IF ~HasQ(s) THEN s
    ELSE LET i == CHOOSE k \in 1..Len(s) : s[k] = "?" /\ \A j \in 1..(k-1) : s[j] # "?"
             rest == SubSeq(s, i + 1, Len(s))
         IN  IF ~HasQ(rest) THEN rest
             ELSE LET m == CHOOSE k \in 1..Len(rest) :
                                rest[k] = "?" /\ \A j \in 1..(k-1) : rest[j] # "?"
                  IN  SubSeq(rest, 1, m - 1)

\* self.response_qs.split(b'?')[-1]: the suffix after the last '?', the whole
\* value when it holds none
SplitLast(s) ==
    IF ~HasQ(s) THEN s
    ELSE LET i == CHOOSE k \in 1..Len(s) : s[k] = "?" /\ \A j \in (k+1)..Len(s) : s[j] # "?"
         IN  SubSeq(s, i + 1, Len(s))

Lower(c) == IF c = "A" THEN "a" ELSE IF c = "L" THEN "l" ELSE c

\* str.casefold
Casefold(str) == [ i \in 1..Len(str) |-> Lower(str[i]) ]

\* needle in hay, for strings
Contains(hay, needle) ==
    \E i \in 0..(Len(hay) - Len(needle)) : SubSeq(hay, i + 1, i + Len(needle)) = needle

\* " (User:{})".format(user)
UserSuffix(user) == << " ", "(", "u", ":" >> \o user \o << ")" >>

----------------------------------------------------------------------------
(* OAuth callback values *)

NoAuth == << >>

\* oauth_callback_data=None
NoneQs == [kind |-> "none", chars |-> << >>]

\* the query string the provider accepts for the outstanding request token
ValidVerifier == << "v" >>

CallbackChars ==
    { << "u", "?", "v" >>, << "u", "?", "x" >>, << "v" >>,
      << "x", "?", "u", "?", "v" >>, << "u", "?", "v", "?", "x" >> }

\* what a caller passes as oauth_callback_data: None, b'' or a bytes value
CallbackData ==
    { NoneQs, [kind |-> "bytes", chars |-> << >>] }
    \cup { [kind |-> "bytes", chars |-> c] : c \in CallbackChars }

\* what input("Callback URL: ") returns: a str
HumanInputs == { [kind |-> "str", chars |-> << "u", "?", "v" >>] }

Falsy(qs) == qs.kind = "none" \/ qs.chars = << >>

\* mwoauth Handshaker.complete on the provider side: the request token must be
\* the outstanding, not yet consumed one and the verifier must match
ProviderAccepts(srv, rt, qs) == srv = "issued" /\ rt = "rt" /\ qs = ValidVerifier

----------------------------------------------------------------------------
(* The edit token and its renewal *)

\* the session is tied to an identity: login cookies or a signing credential
Authenticated(cookies, auth) == "user" \in cookies \/ auth # NoAuth

\* faulty variant: compares the clock, not the elapsed time, with the period
TokenStaleNoSubtract(tok, t, inst, T) == tok = "" \/ t > T

\* faulty variant: renews one tick late
TokenStaleLate(tok, t, inst, T) == tok = "" \/ (t - inst) > T + 1

\* get_edit_token, line 182
TokenStale(tok, t, inst, T) == tok = "" \/ (t - inst) > T

\* get_edit_cookie, line 171
CookieStale(tok, t, inst, T) == (t - inst) > T

\* generate_edit_credentials, line 162: the assignment happens only when the
\* request returned and the body holds ['query']['tokens']['csrftoken']
TokenAfterFetch(old, resp) == IF resp.kind = "ok" THEN resp.token ELSE old

\* generate_edit_credentials raises: requests' error or KeyError
FetchErr(resp) == IF resp.kind = "ok" THEN NoErr ELSE HttpErr(resp.kind)

\* faulty variant: the timestamp is taken before generate_edit_credentials is called
TimestampAfterRefreshEager(old, resp, t) == t

\* lines 172-173 and 183-184: the timestamp is written after
\* faulty variant: the timestamp is never renewed
TimestampAfterRefreshKept(old, resp, t) == old

\* generate_edit_credentials returned, so not when it raised
TimestampAfterRefresh(old, resp, t) == IF resp.kind = "ok" THEN t ELSE old

Op(op, ok, err, ret, events, exch) ==
    [op |-> op, ok |-> ok, err |-> err, ret |-> ret, events |-> events, exch |-> exch]

\* the refresh branch shared by both accessors
Refresh(op, resp, d) ==
    /\ now + d <= MaxTime
    /\ now' = now + d
    /\ edit_token' = TokenAfterFetch(edit_token, resp)
    /\ instantiation_time' = TimestampAfterRefresh(instantiation_time, resp, now')
    /\ fetchedAt' = IF resp.kind = "ok" THEN now' ELSE fetchedAt
    /\ lastOp' = Op(op, resp.kind = "ok", FetchErr(resp),
                    IF resp.kind = "ok" /\ op = "get_edit_token" THEN edit_token' ELSE "",
                    << "edittoken" >>, << >>)

NoRefresh(op) ==
    /\ lastOp' = Op(op, TRUE, NoErr, IF op = "get_edit_token" THEN edit_token ELSE "",
                    << >>, << >>)
    /\ UNCHANGED << now, edit_token, instantiation_time, fetchedAt >>

AccessorFrame ==
    /\ stdout' = NoStr
    /\ UNCHANGED << constructed, strategy, token_renew_period, consumer_key,
                    consumer_secret, response_qs, redirect, request_token, s_auth,
                    s_cookies, srv_request_token, ua_default, wrapper, conc >>

get_edit_token ==
    /\ constructed
    /\ IF TokenStale(edit_token, now, instantiation_time, token_renew_period)
       THEN \E resp \in FetchResponses(Authenticated(s_cookies, s_auth)),
               d \in 0..MaxLatency : Refresh("get_edit_token", resp, d)
       ELSE NoRefresh("get_edit_token")
    /\ AccessorFrame

get_edit_cookie ==
    /\ constructed
    /\ IF CookieStale(edit_token, now, instantiation_time, token_renew_period)
       THEN \E resp \in FetchResponses(Authenticated(s_cookies, s_auth)),
               d \in 0..MaxLatency : Refresh("get_edit_cookie", resp, d)
       ELSE NoRefresh("get_edit_cookie")
    /\ AccessorFrame

\* the clock advances between calls
Tick ==
    /\ now < MaxTime
    /\ now' = now + 1
    /\ UNCHANGED << constructed, strategy, edit_token, instantiation_time,
                    token_renew_period, consumer_key, consumer_secret, response_qs,
                    redirect, request_token, s_auth, s_cookies, srv_request_token,
                    fetchedAt, lastOp, stdout, ua_default, wrapper, conc >>

----------------------------------------------------------------------------
(* Login.__init__ *)

\* faulty variant: one of the two consumer fields is enough for OAuth
StrategyEither(a) ==
    IF a.consumer_key # None \/ a.consumer_secret # None THEN "oauth"
    ELSE IF a.use_clientlogin THEN "clientlogin"
    ELSE "password"

\* line 75: which procedure __init__ runs
Strategy(a) ==
    IF a.consumer_key # None /\ a.consumer_secret # None THEN "oauth"
    ELSE IF a.use_clientlogin THEN "clientlogin"
    ELSE "password"

\* faulty variant: the default is extended whenever a user is given
UserAgentDefaultAfterAlways(default, a) ==
    IF a.user_agent # NoStr THEN default
    ELSE IF a.user # NoStr THEN default \o UserSuffix(a.user)
    ELSE default

\* lines 64-70: config['USER_AGENT_DEFAULT'] after the user agent is chosen
UserAgentDefaultAfter(default, a) ==
    IF a.user_agent # NoStr THEN default
    ELSE IF a.user # NoStr /\ ~Contains(Casefold(default), Casefold(a.user))
    THEN default \o UserSuffix(a.user)
    ELSE default

\* lines 54-70: the fields every branch starts from
ConstructFields(a) ==
    /\ ua_default' = UserAgentDefaultAfter(ua_default, a)
    /\ strategy' = Strategy(a)
    /\ instantiation_time' = now
    /\ token_renew_period' = a.token_renew_period
    /\ consumer_key' = a.consumer_key
    /\ consumer_secret' = a.consumer_secret
    /\ response_qs' = NoneQs
    /\ s_auth' = NoAuth

\* __init__ raised before any edit token was requested
ConstructRaises(err, events, exch, cookies, d) ==
    /\ constructed' = FALSE
    /\ edit_token' = ""
    /\ s_cookies' = cookies
    /\ fetchedAt' = Never
    /\ now' = now + d
    /\ lastOp' = Op("construct", FALSE, err, "", events, exch)

\* line 149: generate_edit_credentials closes the login branches
ConstructFetches(events, exch, fr, d) ==
    /\ constructed' = (fr.kind = "ok")
    /\ edit_token' = TokenAfterFetch("", fr)
    /\ s_cookies' = {"session", "user"}
    /\ fetchedAt' = IF fr.kind = "ok" THEN now + d ELSE Never
    /\ now' = now + d
    /\ lastOp' = Op("construct", fr.kind = "ok", FetchErr(fr), "",
                    Append(events, "edittoken"), exch)

\* faulty variant: the result of action=login is not inspected
LoginRejectedNever(lr) == FALSE

\* faulty variant: a warnings block counts as a failed login
LoginRejectedOnWarnings(lr) == lr.result # "Success" \/ lr.warnings

\* line 139
LoginRejected(lr) == lr.result # "Success"

\* faulty variant: the submission carries a token the client made up
SubmittedLoginTokenOwn(lt) == "lt1"

\* lines 98, 105 and 129: the login token the submission carries
SubmittedLoginToken(lt) == lt.logintoken

\* lines 144-147: the warnings block is printed
Printed(lr) == IF lr.warnings THEN << "warnings" >> ELSE NoStr

\* lines 90-98, 125-142 and 149: user and pwd authentication, the requests
\* and what they leave in the object
ConstructPasswordFlow(a, lt, lr, fr, d) ==
    /\ Strategy(a) = "password"
    /\ now + d <= MaxTime
    /\ ConstructFields(a)
    /\ IF lt.kind # "ok"
       THEN ConstructRaises(HttpErr(lt.kind), << "logintoken" >>, << >>, {}, d)
       ELSE IF lr.kind # "ok"
       THEN ConstructRaises(HttpErr(lr.kind), << "logintoken", "login" >>,
                            << SubmittedLoginToken(lt) >>, {"session"}, d)
       ELSE IF LoginRejected(lr)
       THEN ConstructRaises(<< "LoginError", lr.result, "" >>,
                            << "logintoken", "login" >>,
                            << SubmittedLoginToken(lt) >>, {"session"}, d)
       ELSE ConstructFetches(<< "logintoken", "login" >>,
                             << SubmittedLoginToken(lt) >>, fr, d)
    /\ redirect' = None
    /\ request_token' = None
    /\ UNCHANGED srv_request_token

\* lines 125-149: user and pwd authentication
ConstructPassword(a, lt, lr, fr, d) ==
    /\ ConstructPasswordFlow(a, lt, lr, fr, d)
    /\ stdout' = IF lt.kind = "ok" /\ lr.kind = "ok" /\ ~LoginRejected(lr)
                 THEN Printed(lr) ELSE NoStr

\* faulty variant: only the presence of the clientlogin block is checked
ClientLoginErrorPresenceOnly(cl) ==
    IF cl.hasClientlogin THEN NoErr
    ELSE IF cl.hasError THEN << "LoginError", cl.code, cl.info >>
    ELSE << "KeyError", "", "" >>

\* lines 115-123: what the clientlogin answer raises, NoErr when it passes
ClientLoginError(cl) ==
    IF cl.hasClientlogin
    THEN IF cl.status # "PASS"
         THEN << "LoginError", cl.messagecode, cl.message >>
         ELSE NoErr
    ELSE IF cl.hasError THEN << "LoginError", cl.code, cl.info >>
    ELSE << "KeyError", "", "" >>

\* lines 100-123 and 149: authmanager based login
ConstructClientLogin(a, lt, cl, fr, d) ==
    /\ Strategy(a) = "clientlogin"
    /\ now + d <= MaxTime
    /\ ConstructFields(a)
    /\ IF lt.kind # "ok"
       THEN ConstructRaises(HttpErr(lt.kind), << "logintoken" >>, << >>, {}, d)
       ELSE IF cl.kind # "ok"
       THEN ConstructRaises(HttpErr(cl.kind), << "logintoken", "clientlogin" >>,
                            << SubmittedLoginToken(lt) >>, {"session"}, d)
       ELSE IF ClientLoginError(cl) # NoErr
       THEN ConstructRaises(ClientLoginError(cl), << "logintoken", "clientlogin" >>,
                            << SubmittedLoginToken(lt) >>, {"session"}, d)
       ELSE ConstructFetches(<< "logintoken", "clientlogin" >>,
                             << SubmittedLoginToken(lt) >>, fr, d)
    /\ redirect' = None
    /\ request_token' = None
    /\ stdout' = NoStr
    /\ UNCHANGED srv_request_token

\* lines 75-87: OAuth, step 1 (handshaker.initiate); no edit token is requested
ConstructOAuth(a, io, d) ==
    /\ Strategy(a) = "oauth"
    /\ now + d <= MaxTime
    /\ ConstructFields(a)
    /\ constructed' = (io = "ok")
    /\ edit_token' = ""
    /\ s_cookies' = {}
    /\ fetchedAt' = Never
    /\ now' = now + d
    /\ redirect' = IF io = "ok" THEN "redirect_url" ELSE None
    /\ request_token' = IF io = "ok" THEN "rt" ELSE None
    /\ srv_request_token' = IF io = "ok" THEN "issued" ELSE "none"
    /\ lastOp' = Op("construct", io = "ok",
                    IF io = "ok" THEN NoErr ELSE << "OAuthException", "", "" >>,
                    "", << "initiate" >>, << >>)
    /\ stdout' = NoStr

\* a response is drawn only for a request the call gets to send
NoFetch == [kind |-> "transport_error", token |-> ""]

NoLogin == [kind |-> "transport_error", result |-> "", warnings |-> FALSE]

NoClientLogin == CHOOSE cl \in ClientLoginResponses : cl.kind = "transport_error"

\* one run of the body of __init__ with arguments from args, in an
\* environment that answers with responses from lts, lrs, cls and frs
Login_run(args, lts, lrs, cls, frs) ==
    \E a \in args, d \in 0..MaxLatency :
        \/ \E io \in {"ok", "rejected"} : ConstructOAuth(a, io, d)
        \/ \E lt \in lts :
           \E lr \in (IF lt.kind = "ok" THEN lrs ELSE {NoLogin}) :
           \E fr \in (IF lt.kind = "ok" /\ lr.kind = "ok" /\ ~LoginRejected(lr)
                      THEN frs ELSE {NoFetch}) :
               ConstructPassword(a, lt, lr, fr, d)
        \/ \E lt \in lts :
           \E cl \in (IF lt.kind = "ok" THEN cls ELSE {NoClientLogin}) :
           \E fr \in (IF lt.kind = "ok" /\ cl.kind = "ok" /\ ClientLoginError(cl) = NoErr
                      THEN frs ELSE {NoFetch}) :
               ConstructClientLogin(a, lt, cl, fr, d)

\* one run of the body of __init__ with arguments from args
Login_init(args) ==
    Login_run(args, LoginTokenResponses, LoginResponses, ClientLoginResponses,
              FetchResponses(TRUE))

\* login submissions among the requests of a run
LoginPosts(events) == Count(events, "login") + Count(events, "clientlogin")

\* the caller constructs its one Login object; when the call raised there is
\* no object to go on with
Construct ==
    /\ ~constructed
    /\ lastOp.op = "none"
    /\ Login_init(ConstructArgs)
    /\ wrapper' = [tries |-> 1, login_posts |-> LoginPosts(lastOp'.events)]
    /\ UNCHANGED conc

----------------------------------------------------------------------------
(* The retry wrapper around __init__ (line 21, @wbi_backoff()) *)

\* failures the wrapper retries: transient transport failures
Retryable(err) == err[1] = "ConnectionError"

\* the wrapper calls __init__ again with the arguments of its call
SameCall(a) ==
    /\ a.token_renew_period = token_renew_period
    /\ a.consumer_key = consumer_key
    /\ a.consumer_secret = consumer_secret
    /\ Strategy(a) = strategy

\* __init__ raised a transient failure and the wrapper runs its body again
RetryConstruct ==
    /\ ~constructed
    /\ lastOp.op = "construct"
    /\ Retryable(lastOp.err)
    /\ wrapper.tries < MaxTries
    /\ Login_init({ a \in ConstructArgs : SameCall(a) })
    /\ wrapper' = [ tries |-> wrapper.tries + 1,
                    login_posts |-> wrapper.login_posts + LoginPosts(lastOp'.events) ]
    /\ UNCHANGED conc

----------------------------------------------------------------------------
(* Login.continue_oauth *)

ContinueFrame ==
    UNCHANGED << constructed, strategy, instantiation_time, token_renew_period,
                 consumer_key, consumer_secret, redirect, request_token, s_cookies,
                 ua_default, wrapper, conc >>

\* the call raised before self.s.auth was assigned: only response_qs was written
ContinueRaises(qs, err, events, exch, d) ==
    /\ now' = now + d
    /\ response_qs' = qs
    /\ lastOp' = Op("continue_oauth", FALSE, err, "", events, exch)
    /\ stdout' = IF Count(events, "input") > 0 THEN << "Callback URL: " >> ELSE NoStr
    /\ UNCHANGED << edit_token, srv_request_token, fetchedAt >>

Credential(ck, cs) == << ck, cs, AccessToken.key, AccessToken.secret >>

\* faulty variant: the credential is attached before the exchange is attempted
AuthAfterExchangeEager(old, accepted, ck, cs) == Credential(ck, cs)

\* faulty variant: the session's credential is reset when the call starts
AuthAfterExchangeReset(old, accepted, ck, cs) ==
    IF accepted THEN Credential(ck, cs) ELSE NoAuth

\* lines 213-221: self.s.auth is assigned only after handshaker.complete
\* returned an access token; when it raised, the session keeps what it had
AuthAfterExchange(old, accepted, ck, cs) ==
    IF accepted THEN Credential(ck, cs) ELSE old

\* faulty variant: index [1] of the split
QueryStringSecond(chars) == SplitSecond(chars)

\* line 210
QueryString(chars) == SplitLast(chars)

\* oauth_callback_data cb, the human's answer hi, the provider's transport po,
\* the answer fr to the edit-token query, the time d the call blocks
continue_oauth(cb, hi, po, fr, d) ==
    /\ constructed
    /\ now + d <= MaxTime
    /\ ContinueFrame
    /\ IF strategy # "oauth"
       THEN \* self.redirect / self.handshaker do not exist
            /\ d = 0
            /\ ContinueRaises(cb, << "AttributeError", "", "" >>, << >>, << >>, 0)
            /\ UNCHANGED s_auth
       ELSE IF Falsy(cb)
       THEN \* lines 205-210: input() returns a str, and str.split(b'?') raises
            /\ ContinueRaises(hi, << "TypeError", "", "" >>, << "browser", "input" >>,
                              << >>, d)
            /\ UNCHANGED s_auth
       ELSE IF po # "ok"
       THEN /\ ContinueRaises(cb, << "ConnectionError", "", "" >>, << "complete" >>,
                              QueryString(cb.chars), d)
            /\ UNCHANGED s_auth
       ELSE LET qs == QueryString(cb.chars)
                accepted == ProviderAccepts(srv_request_token, request_token, qs)
            IN  /\ s_auth' = AuthAfterExchange(s_auth, accepted, consumer_key, consumer_secret)
                /\ IF ~accepted
                   THEN ContinueRaises(cb, << "OAuthException", "", "" >>,
                                       << "complete" >>, qs, d)
                   ELSE /\ now' = now + d
                        /\ response_qs' = cb
                        /\ srv_request_token' = "consumed"
                        /\ edit_token' = TokenAfterFetch(edit_token, fr)
                        /\ fetchedAt' = IF fr.kind = "ok" THEN now + d ELSE fetchedAt
                        /\ lastOp' = Op("continue_oauth", fr.kind = "ok", FetchErr(fr), "",
                                        << "complete", "attach_auth", "edittoken" >>, qs)
                        /\ stdout' = NoStr

\* the edit-token query of line 222 is answered for the session as it is then
ContinueOAuth ==
    \E cb \in CallbackData, hi \in HumanInputs, d \in 0..MaxLatency :
    \E po \in (IF strategy = "oauth" /\ ~Falsy(cb) THEN {"ok", "transport_error"} ELSE {"ok"}) :
    \E fr \in (IF /\ strategy = "oauth" /\ ~Falsy(cb) /\ po = "ok"
                  /\ ProviderAccepts(srv_request_token, request_token, QueryString(cb.chars))
               THEN FetchResponses(Authenticated(s_cookies,
                        AuthAfterExchange(s_auth, TRUE, consumer_key, consumer_secret)))
               ELSE {NoFetch}) :
        continue_oauth(cb, hi, po, fr, d)

----------------------------------------------------------------------------
(* Callers of the accessors in several threads *)

Threads == {1, 2}

\* the answer of a successful edit-token query, for the statement after it
Answered == [kind |-> "ok", token |-> ""]

\* no call in progress; locking: the caller serialises whole accessor calls
\* behind one mutex.  seen[t] is the token and timestamp thread t tested,
\* refreshed the tested pairs for which a query was answered with a token,
\* twice whether a thread went on to its query for a tested pair while
\* another query for that pair was under way or had been answered (a query
\* that follows a failed one is a new attempt, not a second refresh)
Callers(locking) ==
    [ locking   |-> locking,
      lock      |-> 0,
      pc        |-> [ t \in Threads |-> "idle" ],
      seen      |-> [ t \in Threads |-> << "", Never >> ],
      refreshed |-> {},
      twice     |-> FALSE ]

NoCallers == Callers(FALSE)

ThreadFrame ==
    UNCHANGED << constructed, strategy, token_renew_period, consumer_key,
                 consumer_secret, response_qs, redirect, request_token, s_auth,
                 s_cookies, srv_request_token, lastOp, stdout, ua_default, wrapper >>

\* lines 171 and 182: thread t enters an accessor and tests the token
ThreadCall(t) ==
    /\ constructed
    /\ conc.pc[t] = "idle"
    /\ conc.locking => conc.lock = 0
    /\ \E stale \in { TokenStale(edit_token, now, instantiation_time, token_renew_period),
                       CookieStale(edit_token, now, instantiation_time, token_renew_period) } :
          conc' = IF stale
                  THEN LET key == << edit_token, instantiation_time >>
                       IN  [ conc EXCEPT
                               !.pc[t] = "fetch",
                               !.seen[t] = key,
                               !.lock = IF conc.locking THEN t ELSE 0,
                               !.twice = \/ @
                                         \/ key \in conc.refreshed
                                         \/ \E u \in Threads \ {t} :
                                               conc.pc[u] # "idle" /\ conc.seen[u] = key ]
                  ELSE conc
    /\ UNCHANGED << now, edit_token, instantiation_time, fetchedAt >>
    /\ ThreadFrame

\* lines 172 and 183: generate_edit_credentials, called by thread t
ThreadFetch(t) ==
    /\ conc.pc[t] = "fetch"
    /\ \E resp \in FetchResponses(Authenticated(s_cookies, s_auth)), d \in 0..MaxLatency :
          /\ now + d <= MaxTime
          /\ now' = now + d
          /\ edit_token' = TokenAfterFetch(edit_token, resp)
          /\ fetchedAt' = IF resp.kind = "ok" THEN now' ELSE fetchedAt
          /\ conc' = IF resp.kind = "ok"
                     THEN [ conc EXCEPT !.pc[t] = "stamp",
                                        !.refreshed = @ \cup { conc.seen[t] } ]
                     ELSE [ conc EXCEPT !.pc[t] = "idle", !.lock = 0 ]
    /\ UNCHANGED instantiation_time
    /\ ThreadFrame

\* lines 173 and 184: thread t writes the timestamp and returns
ThreadStamp(t) ==
    /\ conc.pc[t] = "stamp"
    /\ instantiation_time' = TimestampAfterRefresh(instantiation_time, Answered, now)
    /\ conc' = [ conc EXCEPT !.pc[t] = "idle", !.lock = 0 ]
    /\ UNCHANGED << now, edit_token, fetchedAt >>
    /\ ThreadFrame

ThreadStep == \E t \in Threads : ThreadCall(t) \/ ThreadFetch(t) \/ ThreadStamp(t)

----------------------------------------------------------------------------
(* The system: one caller, calls in sequence *)

\* before the constructor is called
InitObject ==
    /\ now = 0
    /\ constructed = FALSE
    /\ strategy = "none"
    /\ edit_token = ""
    /\ instantiation_time = 0
    /\ token_renew_period = 1
    /\ consumer_key = None
    /\ consumer_secret = None
    /\ response_qs = NoneQs
    /\ redirect = None
    /\ request_token = None
    /\ s_auth = NoAuth
    /\ s_cookies = {}
    /\ srv_request_token = "none"
    /\ fetchedAt = Never
    /\ lastOp = Op("none", TRUE, NoErr, "", << >>, << >>)
    /\ stdout = NoStr
    /\ ua_default = BaseUA
    /\ wrapper = [tries |-> 0, login_posts |-> 0]

Init ==
    /\ InitObject
    /\ conc = NoCallers

Next ==
    \/ Construct
    \/ get_edit_token
    \/ get_edit_cookie
    \/ ContinueOAuth
    \/ Tick

Spec == Init /\ [][Next]_vars

\* the constructor under its retry wrapper
NextBackoff ==
    \/ Construct
    \/ RetryConstruct
    \/ Tick

SpecBackoff == Init /\ [][NextBackoff]_vars

\* one process constructs Login objects one after another, for any users;
\* the state is that of the latest object and of the shared configuration.
\* The server answers each request with one success or one failure.
ConstructAnyUser ==
    /\ Login_run(ConstructArgsAnyUser,
                 { r \in LoginTokenResponses : r.kind # "no_field" /\ r.logintoken # "lt2" },
                 { r \in LoginResponses : ~r.warnings /\ r.result # "WrongPass" },
                 ClientLoginResponses,
                 { r \in FetchResponses(TRUE) : r.kind # "no_field" /\ r.token # "tokB" })
    /\ wrapper' = [tries |-> 1, login_posts |-> LoginPosts(lastOp'.events)]
    /\ UNCHANGED conc

NextUserAgent ==
    \/ ConstructAnyUser
    \/ Tick

SpecUserAgent == Init /\ [][NextUserAgent]_vars

\* two threads call the accessors of one object, with or without a mutex
InitThreads ==
    /\ InitObject
    /\ \E locking \in BOOLEAN : conc = Callers(locking)

NextThreads ==
    \/ Construct
    \/ ThreadStep
    \/ Tick

SpecThreads == InitThreads /\ [][NextThreads]_vars

----------------------------------------------------------------------------
(* Claims about the cached edit token *)

Fetches(op) == Count(op.events, "edittoken")

\* C1: while a non-empty edit token is held and now < instantiation_time +
\* token_renew_period, get_edit_token sends no edit-token query, returns the
\* held token string, and leaves the token and its timestamp as they were.
C1_NoRefreshInsideWindow ==
    [][ ( /\ get_edit_token
          /\ edit_token # ""
          /\ now < instantiation_time + token_renew_period )
        => ( /\ Fetches(lastOp') = 0
             /\ lastOp'.ok
             /\ lastOp'.ret = edit_token
             /\ edit_token' = edit_token
             /\ instantiation_time' = instantiation_time ) ]_vars

\* a get_edit_token call answered from the cache, strictly inside the window
C1_Witness ==
    /\ constructed
    /\ lastOp.op = "get_edit_token"
    /\ lastOp.events = << >>
    /\ lastOp.ret = edit_token
    /\ edit_token # ""
    /\ now > instantiation_time
    /\ now < instantiation_time + token_renew_period

\* C2 as stated: called at now >= instantiation_time + token_renew_period, the
\* boundary included, get_edit_token sends exactly one edit-token query and,
\* the query answered, the timestamp is newer than before.
C2_RefreshFromBoundary ==
    [][ ( /\ get_edit_token
          /\ now >= instantiation_time + token_renew_period )
        => ( /\ Fetches(lastOp') = 1
             /\ (lastOp'.ok => instantiation_time' > instantiation_time) ) ]_vars

\* C2 amended: called at now > instantiation_time + token_renew_period,
\* get_edit_token sends exactly one edit-token query and, the query answered,
\* the timestamp is newer than before; at now = instantiation_time +
\* token_renew_period a held token is returned without any query.
C2_RefreshAfterWindow ==
    [][ /\ ( ( /\ get_edit_token
               /\ now > instantiation_time + token_renew_period )
             => ( /\ Fetches(lastOp') = 1
                  /\ (lastOp'.ok => instantiation_time' > instantiation_time) ) )
        /\ ( ( /\ get_edit_token
               /\ edit_token # ""
               /\ now = instantiation_time + token_renew_period )
             => ( /\ Fetches(lastOp') = 0
                  /\ lastOp'.ret = edit_token
                  /\ instantiation_time' = instantiation_time ) ) ]_vars

\* a login manager never holds an empty token, so this query was sent because
\* the period had run out
C2_Witness ==
    /\ constructed
    /\ strategy \in {"password", "clientlogin"}
    /\ lastOp.op = "get_edit_token"
    /\ lastOp.events = << "edittoken" >>
    /\ lastOp.ok
    /\ instantiation_time = now
    /\ fetchedAt = now

C4_SameStalenessCheck ==
    constructed =>
        ( CookieStale(edit_token, now, instantiation_time, token_renew_period)
          <=> TokenStale(edit_token, now, instantiation_time, token_renew_period) )

\* C5: when the refresh inside get_edit_token or get_edit_cookie fails, the
\* call raises, the held token string and its timestamp are what they were,
\* and the accessor still finds the token stale, so it refreshes when called next.
C5_FailedRefreshKeepsToken ==
    [][ ((get_edit_token \/ get_edit_cookie) /\ ~lastOp'.ok)
        => ( /\ Fetches(lastOp') = 1
             /\ lastOp'.err[1] \in {"ConnectionError", "KeyError"}
             /\ edit_token' = edit_token
             /\ instantiation_time' = instantiation_time
             /\ fetchedAt' = fetchedAt
             /\ (lastOp'.op = "get_edit_token" =>
                   TokenStale(edit_token', now', instantiation_time', token_renew_period'))
             /\ (lastOp'.op = "get_edit_cookie" =>
                   CookieStale(edit_token', now', instantiation_time', token_renew_period')) ) ]_vars

\* an accessor raised on a stale, non-empty token, which is still held
C5_Witness ==
    /\ constructed
    /\ lastOp.op \in {"get_edit_token", "get_edit_cookie"}
    /\ ~lastOp.ok
    /\ edit_token # ""
    /\ now - instantiation_time > token_renew_period

----------------------------------------------------------------------------
(* Claims about the login procedures *)

\* the arguments and the blocking time of the __init__ call a step performs
StepArgs(ucl) ==
    [ token_renew_period |-> token_renew_period',
      consumer_key       |-> consumer_key',
      consumer_secret    |-> consumer_secret',
      use_clientlogin    |-> ucl,
      user               |-> NoStr,
      user_agent         |-> ExplicitUA ]

\* the answer to the login-token query when the step went on to submit
StepLoginToken ==
    [ kind |-> "ok",
      logintoken |-> IF lastOp'.exch = << >> THEN "" ELSE lastOp'.exch[1] ]

StepLatency == now' - now

\* C6: user and pwd authentication: when action=login answers with a result
\* other than "Success", __init__ raises LoginError carrying that result, no
\* edit-token query is sent and edit_token stays unset.
C6_PasswordLoginRejected ==
    [][ (lastOp'.op = "construct" /\ strategy' = "password") =>
        \A lr \in LoginResponses, fr \in FetchResponses(TRUE) :
          ( /\ StepLatency \in 0..MaxLatency
            /\ ConstructPassword(StepArgs(FALSE), StepLoginToken, lr, fr, StepLatency)
            /\ lr.kind = "ok"
            /\ lr.result # "Success" )
          => ( /\ ~constructed'
               /\ ~lastOp'.ok
               /\ lastOp'.err = << "LoginError", lr.result, "" >>
               /\ lastOp'.events = << "logintoken", "login" >>
               /\ Fetches(lastOp') = 0
               /\ edit_token' = ""
               /\ fetchedAt' = Never ) ]_vars

\* a password construction that the server answered with "WrongPass"
C6_Witness ==
    /\ lastOp.op = "construct"
    /\ strategy = "password"
    /\ lastOp.err = << "LoginError", "WrongPass", "" >>
    /\ ~constructed
    /\ edit_token = ""

\* C7: authmanager login: the edit-token query is sent, and __init__ can
\* return, exactly when the answer holds a clientlogin block with status
\* "PASS"; a clientlogin block with another status raises LoginError with the
\* block's messagecode and message, an error block raises LoginError with its
\* code and info, and neither failure sends an edit-token query.
C7_ClientLoginOutcome ==
    [][ (lastOp'.op = "construct" /\ strategy' = "clientlogin") =>
        \A cl \in ClientLoginResponses, fr \in FetchResponses(TRUE) :
          ( /\ StepLatency \in 0..MaxLatency
            /\ ConstructClientLogin(StepArgs(TRUE), StepLoginToken, cl, fr, StepLatency)
            /\ cl.kind = "ok" )
          => LET pass == cl.hasClientlogin /\ cl.status = "PASS"
             IN  /\ (Fetches(lastOp') = 1) <=> pass
                 /\ Fetches(lastOp') \in {0, 1}
                 /\ constructed' <=> (pass /\ fr.kind = "ok")
                 /\ constructed' => edit_token' = fr.token /\ edit_token' # ""
                 /\ (cl.hasClientlogin /\ cl.status # "PASS")
                      => lastOp'.err = << "LoginError", cl.messagecode, cl.message >>
                 /\ (~cl.hasClientlogin /\ cl.hasError)
                      => lastOp'.err = << "LoginError", cl.code, cl.info >>
                 /\ ~pass => edit_token' = "" ]_vars

\* a clientlogin construction answered with an error block
C7_Witness ==
    /\ lastOp.op = "construct"
    /\ strategy = "clientlogin"
    /\ lastOp.err = << "LoginError", "badpass", "Incorrect password" >>
    /\ lastOp.events = << "logintoken", "clientlogin" >>
    /\ ~constructed
    /\ edit_token = ""

----------------------------------------------------------------------------
(* Claims about the OAuth handshake *)

\* the handshake states of the manager
Initiated == constructed /\ strategy = "oauth" /\ s_auth = NoAuth

Completed == constructed /\ strategy = "oauth" /\ s_auth # NoAuth

\* C8: continue_oauth with a callback whose suffix after the last '?' the
\* provider accepts for the stored request token exchanges exactly that
\* suffix, then attaches the credential built from the consumer key/secret
\* and the access key/secret, then sends one edit-token query, which is
\* answered for the signed session; the query answered, the manager is
\* Completed and holds a non-empty token.
C8_CompleteOAuthAccepted ==
    [][ lastOp'.op = "continue_oauth" =>
        \A cb \in CallbackData, hi \in HumanInputs, fr \in AllFetchResponses :
          ( /\ StepLatency \in 0..MaxLatency
            /\ continue_oauth(cb, hi, "ok", fr, StepLatency)
            /\ strategy = "oauth"
            /\ ~Falsy(cb)
            /\ ProviderAccepts(srv_request_token, request_token, SplitLast(cb.chars)) )
          => ( /\ lastOp'.events = << "complete", "attach_auth", "edittoken" >>
               /\ lastOp'.exch = SplitLast(cb.chars)
               /\ s_auth' = << consumer_key, consumer_secret,
                               AccessToken.key, AccessToken.secret >>
               /\ Completed'
               /\ lastOp'.ok <=> (fr.kind = "ok")
               /\ fr.kind = "ok" => (edit_token' = fr.token /\ edit_token' \in AuthTokens) ) ]_vars

\* a completed handshake whose callback holds more than one '?'
C8_Witness ==
    /\ Completed
    /\ lastOp.op = "continue_oauth"
    /\ lastOp.ok
    /\ lastOp.events = << "complete", "attach_auth", "edittoken" >>
    /\ response_qs.chars = << "x", "?", "u", "?", "v" >>
    /\ lastOp.exch = << "v" >>
    /\ edit_token \in AuthTokens

\* C9: no call leaves Completed: the credential attached to the session stays,
\* the held edit token stays or is replaced by a newly fetched one, and
\* continue_oauth called again, its exchange reaching the provider with the
\* consumed request token, raises the handshake error.
C9_CompletedIsTerminal ==
    [][ Completed
        => ( /\ Completed'
             /\ s_auth' = s_auth
             /\ request_token' = request_token
             /\ \/ edit_token' = edit_token
                \/ /\ edit_token' \in AuthTokens
                   /\ Fetches(lastOp') = 1
                   /\ lastOp'.ok
             /\ lastOp'.op = "continue_oauth" =>
               \A cb \in CallbackData, hi \in HumanInputs, fr \in AllFetchResponses :
                  ( /\ StepLatency \in 0..MaxLatency
                    /\ continue_oauth(cb, hi, "ok", fr, StepLatency)
                    /\ ~Falsy(cb) )
                  => ( /\ ~lastOp'.ok
                       /\ lastOp'.err[1] = "OAuthException"
                       /\ Fetches(lastOp') = 0 ) ) ]_vars

\* continue_oauth was called again on a Completed manager and was rejected
C9_Witness ==
    /\ Completed
    /\ edit_token \in AuthTokens
    /\ lastOp.op = "continue_oauth"
    /\ ~lastOp.ok
    /\ lastOp.err[1] = "OAuthException"
    /\ lastOp.exch = ValidVerifier

\* C10: a rejected exchange in state Initiated raises the handshake error and
\* leaves the request token, the redirect URL, the session's absent
\* credential, the edit token and its timestamp as they were, sends no
\* edit-token query, and the stored request token is still exchangeable: a
\* later continue_oauth with an accepted callback reaches Completed.
C10_RejectedExchangeKeepsState ==
    [][ lastOp'.op = "continue_oauth" /\ Initiated =>
        /\ \A cb \in CallbackData, hi \in HumanInputs, fr \in AllFetchResponses :
             ( /\ StepLatency \in 0..MaxLatency
               /\ continue_oauth(cb, hi, "ok", fr, StepLatency)
               /\ Initiated
               /\ ~Falsy(cb)
               /\ ~ProviderAccepts(srv_request_token, request_token, SplitLast(cb.chars)) )
             => ( /\ ~lastOp'.ok
                  /\ lastOp'.err[1] = "OAuthException"
                  /\ Fetches(lastOp') = 0
                  /\ request_token' = request_token
                  /\ redirect' = redirect
                  /\ s_auth' = s_auth
                  /\ edit_token' = edit_token
                  /\ instantiation_time' = instantiation_time
                  /\ Initiated'
                  /\ ProviderAccepts(srv_request_token', request_token', ValidVerifier) )
        /\ \A cb \in CallbackData, hi \in HumanInputs, fr \in AllFetchResponses :
             ( /\ StepLatency \in 0..MaxLatency
               /\ continue_oauth(cb, hi, "ok", fr, StepLatency)
               /\ Initiated
               /\ lastOp.op = "continue_oauth"
               /\ lastOp.err[1] = "OAuthException"
               /\ ~Falsy(cb)
               /\ SplitLast(cb.chars) = ValidVerifier )
             => ( /\ Completed'
                  /\ fr.kind = "ok" => edit_token' \in AuthTokens ) ]_vars

\* the provider rejected the exchange and the manager is still Initiated
C10_Witness ==
    /\ Initiated
    /\ lastOp.op = "continue_oauth"
    /\ lastOp.err[1] = "OAuthException"
    /\ lastOp.exch = << "x" >>
    /\ request_token = "rt"
    /\ redirect = "redirect_url"
    /\ srv_request_token = "issued"

----------------------------------------------------------------------------
(* Claims about the strategies of __init__ and the OAuth states *)

\* C11: for the OAuth strategy, as long as no continue_oauth call has
\* succeeded (the manager is Initiated), no edit-token query has been issued
\* and the edit token is unset: the accessors do nothing before Completed.
C11_NoFetchBeforeCompleted ==
    Initiated => (edit_token = "" /\ Fetches(lastOp) = 0)

\* C12: a continue_oauth call in Initiated without callback data shows the
\* redirect URL to the human, takes the callback URL the human returns and
\* goes on as if that URL had been passed: when the provider accepts its
\* query string, the exchange is made and the manager is Completed with an
\* edit token (unless the exchange or the token query fails in transport).
C12_HumanCallbackCompletes ==
    [][ ( /\ lastOp'.op = "continue_oauth"
          /\ Initiated
          /\ Count(lastOp'.events, "input") > 0
          /\ response_qs' \in HumanInputs
          /\ ProviderAccepts(srv_request_token, request_token,
                             QueryString(response_qs'.chars)) )
        => ( /\ lastOp'.events[1] = "browser"
             /\ Count(lastOp'.events, "complete") = 1
             /\ lastOp'.err[1] \in {"", "ConnectionError", "KeyError"}
             /\ lastOp'.ok => (s_auth' # NoAuth /\ edit_token' \in AuthTokens) ) ]_vars

\* this step is a run of the body of __init__ with the arguments a
StepRun(a) ==
    CASE strategy' = "oauth" ->
            \E io \in {"ok", "rejected"} : ConstructOAuth(a, io, StepLatency)
      [] strategy' = "password" ->
            \E lt \in LoginTokenResponses :
            \E lr \in (IF lt.kind = "ok" THEN LoginResponses ELSE {NoLogin}) :
            \E fr \in (IF lt.kind = "ok" /\ lr.kind = "ok" /\ ~LoginRejected(lr)
                       THEN FetchResponses(TRUE) ELSE {NoFetch}) :
                ConstructPassword(a, lt, lr, fr, StepLatency)
      [] strategy' = "clientlogin" ->
            \E lt \in LoginTokenResponses :
            \E cl \in (IF lt.kind = "ok" THEN ClientLoginResponses ELSE {NoClientLogin}) :
            \E fr \in (IF lt.kind = "ok" /\ cl.kind = "ok" /\ ClientLoginError(cl) = NoErr
                       THEN FetchResponses(TRUE) ELSE {NoFetch}) :
                ConstructClientLogin(a, lt, cl, fr, StepLatency)
      [] OTHER -> FALSE

\* C13: one run of __init__ sends the requests of exactly one strategy: the
\* handshake initiation alone (no login-token query, no login submission, no
\* edit-token query) exactly when consumer_key and consumer_secret are both
\* given; otherwise the login-token query, then the clientlogin submission
\* when use_clientlogin is set and the password-login submission when it is
\* not, then at most the edit-token query, and never a handshake initiation.
C13_OneStrategyPerConstruct ==
    [][ (lastOp'.op = "construct" /\ ~constructed) =>
        \A ucl \in BOOLEAN :
            StepRun(StepArgs(ucl)) =>
                LET a  == StepArgs(ucl)
                    ev == lastOp'.events
                    submission == IF ucl THEN "clientlogin" ELSE "login"
                    other      == IF ucl THEN "login" ELSE "clientlogin"
                IN  IF a.consumer_key # None /\ a.consumer_secret # None
                    THEN ev = << "initiate" >>
                    ELSE /\ Count(ev, "initiate") = 0
                         /\ Count(ev, other) = 0
                         /\ \/ ev = << "logintoken" >>
                            \/ ev = << "logintoken", submission >>
                            \/ ev = << "logintoken", submission, "edittoken" >> ]_vars

\* with the consumer key alone the clientlogin requests were sent, and the
\* object is usable
C13_Witness ==
    /\ lastOp.op = "construct"
    /\ constructed
    /\ consumer_key = "ck"
    /\ consumer_secret = None
    /\ lastOp.events = << "logintoken", "clientlogin", "edittoken" >>

\* arguments that supply fields of more than one strategy: a consumer field
\* together with a user name or with use_clientlogin
MixedStrategies(a) ==
    /\ a.consumer_key # None \/ a.consumer_secret # None
    /\ a.user # NoStr \/ a.use_clientlogin

\* C14: __init__ rejects arguments that supply fields of more than one
\* strategy (a user name or use_clientlogin together with a consumer key or
\* secret): the call fails and no request at all is sent.
C14_MixedStrategiesRejected ==
    [][ (lastOp'.op = "construct" /\ ~constructed) =>
        \A ucl \in BOOLEAN :
            LET a == [ StepArgs(ucl) EXCEPT !.user = << "a", "l" >> ]
            IN  (MixedStrategies(a) /\ StepRun(a)) =>
                    (~lastOp'.ok /\ lastOp'.events = << >>) ]_vars

\* C15: a warnings block next to a successful password login does not change
\* the control flow: the run with the warnings block and the run without it
\* (all else equal) send the same requests, end with the same outcome and
\* leave the same edit token and session state; only the printed text differs.
C15_WarningsDoNotChangeFlow ==
    [][ (lastOp'.op = "construct" /\ ~constructed /\ strategy' = "password") =>
        \A lt \in LoginTokenResponses, lr \in LoginResponses,
           fr \in FetchResponses(TRUE) :
            ( /\ lt.kind = "ok"
              /\ lr.kind = "ok"
              /\ lr.result = "Success"
              /\ ConstructPassword(StepArgs(FALSE), lt, lr, fr, StepLatency) )
            => ConstructPasswordFlow(StepArgs(FALSE), lt,
                                     [lr EXCEPT !.warnings = ~lr.warnings],
                                     fr, StepLatency) ]_vars

\* a password login that succeeded with warnings: they were printed, and the
\* object holds its edit token
C15_Witness ==
    /\ lastOp.op = "construct"
    /\ constructed
    /\ strategy = "password"
    /\ stdout = << "warnings" >>
    /\ lastOp.events = << "logintoken", "login", "edittoken" >>
    /\ edit_token \in AuthTokens

----------------------------------------------------------------------------
(* Claims about the timestamp, the retries and the order of the requests *)

\* C16: the token string and its timestamp are replaced together: whenever
\* an edit token is held, instantiation_time is the time at which that token
\* was received, whichever call fetched it (__init__, continue_oauth or an
\* accessor).
C16_TimestampIsIssueTime ==
    edit_token # "" => instantiation_time = fetchedAt

\* C17: in one call of the constructor with the password or the clientlogin
\* strategy the login submission is sent at most once, whatever transient
\* transport failures the retry wrapper meets.
C17_LoginSubmittedAtMostOnce ==
    wrapper.login_posts <= 1

\* C18: the requests of the password strategy are strictly ordered: the
\* login-token query comes first, the login submission follows it and carries
\* the login token that query returned, and the edit-token query is sent only
\* after the submission was answered with "Success"; when all three are
\* answered, __init__ returns an object that holds a non-empty edit token
\* (which get_edit_token returns) and a session with a non-empty cookie set.
C18_PasswordRequestsInOrder ==
    [][ (lastOp'.op = "construct" /\ ~constructed /\ strategy' = "password") =>
        \A lt \in LoginTokenResponses, lr \in LoginResponses,
           fr \in FetchResponses(TRUE) :
            ConstructPassword(StepArgs(FALSE), lt, lr, fr, StepLatency) =>
                LET ev == lastOp'.events
                IN  /\ \/ ev = << "logintoken" >>
                       \/ ev = << "logintoken", "login" >>
                       \/ ev = << "logintoken", "login", "edittoken" >>
                    /\ Len(ev) >= 2 =>
                          (lt.kind = "ok" /\ lastOp'.exch = << lt.logintoken >>)
                    /\ Len(ev) = 3 => (lr.kind = "ok" /\ lr.result = "Success")
                    /\ (lt.kind = "ok" /\ lr.kind = "ok" /\ lr.result = "Success"
                          /\ fr.kind = "ok")
                       => ( /\ constructed'
                            /\ edit_token' = fr.token
                            /\ edit_token' # ""
                            /\ edit_token' \in AuthTokens
                            /\ s_cookies' # {} ) ]_vars

\* a password login whose submission carried the second login token
C18_Witness ==
    /\ lastOp.op = "construct"
    /\ constructed
    /\ strategy = "password"
    /\ lastOp.events = << "logintoken", "login", "edittoken" >>
    /\ lastOp.exch = << "lt2" >>
    /\ edit_token \in AuthTokens
    /\ s_cookies # {}

----------------------------------------------------------------------------
(* Claims about concurrent callers and the default user agent *)

\* C19: the accessors take no lock.  When the caller serialises whole
\* accessor calls behind one mutex, at most one refresh is made for one
\* expiry (one tested token and timestamp) in every interleaving: no query
\* is sent for a tested pair while another query for it is under way or was
\* answered.  Without the mutex two callers can both find the token stale
\* and each send its own query (witness).
C19_MutexOneRefreshPerExpiry ==
    conc.locking => ~conc.twice

\* without the mutex both threads tested the same stale token, each sent
\* its own query and both queries were answered
C19_Witness ==
    /\ ~conc.locking
    /\ conc.twice
    /\ conc.pc[1] = "stamp"
    /\ conc.pc[2] = "stamp"
    /\ conc.seen[1] = conc.seen[2]
    /\ conc.seen[1] \in conc.refreshed

\* places where needle occurs in hay
Occurrences(hay, needle) ==
    Cardinality({ i \in 0..(Len(hay) - Len(needle)) :
                    SubSeq(hay, i + 1, i + Len(needle)) = needle })

\* C20: the process-wide default user agent is changed by __init__ only
\* when no user_agent is passed and a user is given whose case-folded name is
\* not contained in the case-folded default, and then by appending
\* " (User:<name>)"; a call that passes a user_agent leaves it unchanged; and
\* after any sequence of constructions, failed or not, the default holds the
\* suffix of each user name at most once.
C20_DefaultUserAgentFrame ==
    [][ /\ ua_default' # ua_default =>
              /\ lastOp'.op = "construct"
              /\ \A u \in UserNames : Occurrences(ua_default', UserSuffix(u)) <= 1
        /\ lastOp'.op = "construct" =>
              \A u \in UserNames \cup { NoStr }, g \in { NoStr, ExplicitUA } :
                 \/ ua_default' =
                       IF /\ g = NoStr
                          /\ u # NoStr
                          /\ ~Contains(Casefold(ua_default), Casefold(u))
                       THEN ua_default \o UserSuffix(u)
                       ELSE ua_default
                 \/ ~ConstructFields([ StepArgs(FALSE) EXCEPT !.user = u,
                                                              !.user_agent = g ]) ]_vars

\* the default was extended for two users, the latest construction (for a
\* user whose name differs only in case from one of them) failed and left it
\* as it was
C20_Witness ==
    /\ lastOp.op = "construct"
    /\ ~lastOp.ok
    /\ Occurrences(ua_default, UserSuffix(<< "a" >>)) = 1
    /\ Occurrences(ua_default, UserSuffix(<< "A", "L" >>)) = 1
    /\ Occurrences(ua_default, UserSuffix(<< "a", "l" >>)) = 0
    /\ Len(ua_default) = Len(BaseUA) + Len(UserSuffix(<< "a" >>)) + Len(UserSuffix(<< "A", "L" >>))

====
